---------------------------- MODULE Spec2Model ----------------------------
(***************************************************************************)
(* Model of the forecast widgets of sdg-developments-system:               *)
(*                                                                         *)
(*   src/components/forecast-accuracy-chart.tsx                            *)
(*       calculateMAPE, calculateRMSE, prepareChartData                    *)
(*   src/components/report-dialog.tsx                                      *)
(*       the fetchForecast effect and calculateStats                       *)
(*                                                                         *)
(* JavaScript numbers are modelled as exact rationals [n, d] (d > 0); a    *)
(* denominator of 0 encodes the non-finite results of a division by zero:  *)
(* 1/0 is Infinity, -1/0 is -Infinity and 0/0 is NaN.                      *)
(***************************************************************************)
EXTENDS Integers, Sequences, FiniteSets, TLC

VARIABLES
    called,          \* chart: which helper of the chart component ran last
    historyData,     \* chart: its historyData argument (rows of the history table)
    forecastData,    \* chart: its forecastData argument (the parsed response body)
    ret,             \* chart: what the call produced: [threw, value]
    mounted,         \* report: the dialog has rendered and run its first effect
    props,           \* report: open, resource, resourceType, historicalData, forecastData
    forecastedCost,  \* report: useState<number | null>(null)
    forecastSeries,  \* report: useState<number[]>([])
    inflight,        \* report: fetchForecast calls awaiting fetch() or response.json()
    settled,         \* report: how the fetchForecast call that finished last ended
    rendered,        \* component: ForecastAccuracyChart has rendered and run its effect
    selection,       \* component: the props resourceType and resource
    isLoading,       \* component: useState(true)
    metrics,         \* component: useState({ mape: 0, rmse: 0 })
    chartData,       \* component: useState<any[]>([])
    runs             \* component: the runs of the data-loading effect so far, in order

chartVars == <<called, historyData, forecastData, ret>>
reportVars == <<mounted, props, forecastedCost, forecastSeries, inflight, settled>>
compVars == <<rendered, selection, isLoading, metrics, chartData, runs>>
vars == <<called, historyData, forecastData, ret,
          mounted, props, forecastedCost, forecastSeries, inflight, settled,
          rendered, selection, isLoading, metrics, chartData, runs>>

---------------------------------------------------------------------------
(* Bounds of the model. *)

MaxHist == 3
MaxForecast == 3

Costs == {0, 100, 110}
Preds == {0, 100, 105, 115}
ChartCosts == {0, 100}
ChartPreds == {100, 105}
Years == {2023, 2024}
Days == {1, 15, 28, 29, 30, 31}

---------------------------------------------------------------------------
(* JavaScript values. *)

Null == [t |-> "null"]
Undefined == [t |-> "undefined"]
JNum(x) == [t |-> "number", v |-> x]
JArray(s) == [t |-> "array", v |-> s]
JObject(forecast) == [t |-> "object", forecast |-> forecast]

Return(v) == [threw |-> FALSE, value |-> v]
Throw == [threw |-> TRUE, value |-> "TypeError"]

\* 0-based indexing of a JavaScript array held as a sequence
At(arr, index) == arr[index + 1]

Min(a, b) == IF a < b THEN a ELSE b
Max(a, b) == IF a > b THEN a ELSE b

---------------------------------------------------------------------------
(* Numbers. *)

AbsInt(i) == IF i < 0 THEN -i ELSE i
Sign(i) == IF i > 0 THEN 1 ELSE IF i < 0 THEN -1 ELSE 0

RECURSIVE GCD(_, _)
GCD(a, b) == IF b = 0 THEN a ELSE GCD(b, a % b)

\* the number n/d in lowest terms; d = 0 gives Infinity, -Infinity or NaN
Rat(n, d) ==
    IF d = 0 THEN [n |-> Sign(n), d |-> 0]
    ELSE LET g == GCD(AbsInt(n), AbsInt(d))
             s == IF d < 0 THEN -1 ELSE 1
         IN  [n |-> (s * n) \div g, d |-> (s * d) \div g]

N(i) == [n |-> i, d |-> 1]
NaN == [n |-> 0, d |-> 0]
IsFinite(x) == x.d # 0
IsNaN(x) == x.d = 0 /\ x.n = 0

Add(x, y) ==
    IF IsFinite(x) /\ IsFinite(y) THEN Rat(x.n * y.d + y.n * x.d, x.d * y.d)
    ELSE IF IsNaN(x) \/ IsNaN(y) THEN NaN
    ELSE IF IsFinite(x) THEN y
    ELSE IF IsFinite(y) THEN x
    ELSE IF x.n = y.n THEN x ELSE NaN
Neg(x) == [n |-> -x.n, d |-> x.d]
Sub(x, y) == Add(x, Neg(y))
Mul(x, y) ==
    IF IsFinite(x) /\ IsFinite(y) THEN Rat(x.n * y.n, x.d * y.d)
    ELSE IF IsNaN(x) \/ IsNaN(y) THEN NaN
    ELSE [n |-> Sign(x.n) * Sign(y.n), d |-> 0]
Div(x, y) ==
    IF IsFinite(x) /\ IsFinite(y) THEN Rat(x.n * y.d, x.d * y.n)
    ELSE IF IsNaN(x) \/ IsNaN(y) THEN NaN
    ELSE IF IsFinite(x) THEN N(0)
    ELSE IF IsFinite(y) THEN [n |-> x.n * (IF y.n < 0 THEN -1 ELSE 1), d |-> 0]
    ELSE NaN
MathAbs(x) == [n |-> AbsInt(x.n), d |-> x.d]

\* Math.pow(x, 2)
MathPow2(x) == Mul(x, x)

\* the integer square root of a natural number, and whether it is exact
RECURSIVE ISqrt(_)
ISqrt(k) ==
    IF k < 2 THEN k
    ELSE LET s == 2 * ISqrt(k \div 4)
         IN  IF (s + 1) * (s + 1) > k THEN s ELSE s + 1
IsSquare(k) == ISqrt(k) * ISqrt(k) = k

\* Math.sqrt over the reals: [n, d, r] stands for (n/d)^(1/r). A rational
\* square is returned as a rational (r = 1), any other radicand symbolically
\* (r = 2); the square root of a negative number is NaN.
Surd(n, d, r) == [n |-> n, d |-> d, r |-> r]
MathSqrt(x) ==
    IF IsNaN(x) \/ x.n < 0 THEN Surd(0, 0, 1)
    ELSE IF x.d = 0 THEN Surd(1, 0, 1)
    ELSE IF IsSquare(x.n) /\ IsSquare(x.d) THEN Surd(ISqrt(x.n), ISqrt(x.d), 1)
    ELSE Surd(x.n, x.d, 2)

---------------------------------------------------------------------------
(* Dates: a Date is held as its local calendar date [year, month, date],   *)
(* month 0..11 as getMonth() gives it.                                     *)

IsLeap(y) == (y % 4 = 0 /\ y % 100 # 0) \/ y % 400 = 0
DaysInMonth(y, m) ==
    IF m = 1 THEN (IF IsLeap(y) THEN 29 ELSE 28)
    ELSE IF m \in {3, 5, 8, 10} THEN 30 ELSE 31

MkDate(y, m, d) == [year |-> y, month |-> m, date |-> d]

\* Date.prototype.setMonth(month): the year absorbs a month outside 0..11,
\* and a day past the end of the month runs over into the next month.
SetMonth(dt, month) ==
    LET y == dt.year + (month \div 12)
        m == month % 12
        dim == DaysInMonth(y, m)
    IN  IF dt.date <= dim THEN MkDate(y, m, dt.date)
        ELSE MkDate(y + ((m + 1) \div 12), (m + 1) % 12, dt.date - dim)

MonthShort == <<"Jan", "Feb", "Mar", "Apr", "May", "Jun",
                "Jul", "Aug", "Sep", "Oct", "Nov", "Dec">>

\* toLocaleDateString("en-US", { month: "short", year: "2-digit" })
ToLocaleDateString(dt) == [month |-> MonthShort[dt.month + 1], year |-> dt.year % 100]

---------------------------------------------------------------------------
(* Array helpers. *)

\* Array.prototype.slice(0, end): the mutation of Slice that keeps the head
SliceHead(arr, start) ==
    SubSeq(arr, 1, Min(AbsInt(start), Len(arr)))

\* Array.prototype.slice(start) with one argument
Slice(arr, start) ==
    LET len == Len(arr)
        k == IF start < 0 THEN Max(len + start, 0) ELSE Min(start, len)
    IN  SubSeq(arr, k + 1, len)


\* arr[index] used in arithmetic: an index past the end reads undefined,
\* which arithmetic turns into NaN
Elem(arr, index) == IF index < Len(arr) THEN N(At(arr, index)) ELSE NaN

\* !value for the values a response's forecast field takes here
IsFalsy(value) == value.t \in {"null", "undefined"}

---------------------------------------------------------------------------
(* forecast-accuracy-chart.tsx: calculateMAPE *)

MAPEStepNoZeroSkip(acc, item, index, forecast) ==
    IF index < Len(forecast)
    THEN [totalError |-> Add(acc.totalError,
                             Mul(MathAbs(Div(Sub(N(item.cost), Elem(forecast, index)),
                                             N(item.cost))), N(100))),
          count |-> acc.count + 1]
    ELSE acc

\* the forEach callback, lines 84-93
MAPEStep(acc, item, index, forecast) ==
    IF index < Len(forecast)
    THEN LET actual == item.cost
             fc == Elem(forecast, index)
         IN  IF actual # 0
             THEN [totalError |-> Add(acc.totalError,
                                      Mul(MathAbs(Div(Sub(N(actual), fc), N(actual))),
                                          N(100))),
                   count |-> acc.count + 1]
             ELSE acc
    ELSE acc

RECURSIVE MAPELoop(_, _, _, _)
MAPELoop(points, forecast, index, acc) ==
    IF index >= Len(points) THEN acc
    ELSE MAPELoop(points, forecast, index + 1,
                  MAPEStep(acc, At(points, index), index, forecast))

calculateMAPE(hist, fdata) ==
    IF Len(hist) = 0 THEN Return(N(0))
    ELSE IF fdata.t = "null" THEN Throw
    ELSE IF IsFalsy(fdata.forecast) THEN Return(N(0))
    ELSE LET forecast == fdata.forecast.v
             lastHistoricalPoints == Slice(hist, -Len(forecast))
             acc == MAPELoop(lastHistoricalPoints, forecast, 0,
                             [totalError |-> N(0), count |-> 0])
         IN  Return(IF acc.count > 0 THEN Div(acc.totalError, N(acc.count)) ELSE N(0))

---------------------------------------------------------------------------
(* forecast-accuracy-chart.tsx: calculateRMSE *)

RMSEStepZeroSkip(acc, item, index, forecast) ==
    IF index < Len(forecast) /\ item.cost # 0
    THEN [sumSquaredErrors |->
              Add(acc.sumSquaredErrors,
                  MathPow2(Sub(N(item.cost), Elem(forecast, index)))),
          count |-> acc.count + 1]
    ELSE acc

\* the forEach callback, lines 105-112
RMSEStep(acc, item, index, forecast) ==
    IF index < Len(forecast)
    THEN LET actual == item.cost
             fc == Elem(forecast, index)
         IN  [sumSquaredErrors |-> Add(acc.sumSquaredErrors, MathPow2(Sub(N(actual), fc))),
              count |-> acc.count + 1]
    ELSE acc

RECURSIVE RMSELoop(_, _, _, _)
RMSELoop(points, forecast, index, acc) ==
    IF index >= Len(points) THEN acc
    ELSE RMSELoop(points, forecast, index + 1,
                  RMSEStep(acc, At(points, index), index, forecast))

\* the mutation of calculateRMSE that tests the forecast before the history
calculateRMSEGuardSwapped(hist, fdata) ==
    IF fdata.t = "null" THEN Throw
    ELSE IF IsFalsy(fdata.forecast) \/ Len(hist) = 0 THEN Return(Surd(0, 1, 1))
    ELSE LET forecast == fdata.forecast.v
             acc == RMSELoop(Slice(hist, -Len(forecast)), forecast, 0,
                             [sumSquaredErrors |-> N(0), count |-> 0])
         IN  Return(IF acc.count > 0
                    THEN MathSqrt(Div(acc.sumSquaredErrors, N(acc.count)))
                    ELSE Surd(0, 1, 1))

calculateRMSE(hist, fdata) ==
    IF Len(hist) = 0 THEN Return(Surd(0, 1, 1))
    ELSE IF fdata.t = "null" THEN Throw
    ELSE IF IsFalsy(fdata.forecast) THEN Return(Surd(0, 1, 1))
    ELSE LET forecast == fdata.forecast.v
             lastHistoricalPoints == Slice(hist, -Len(forecast))
             acc == RMSELoop(lastHistoricalPoints, forecast, 0,
                             [sumSquaredErrors |-> N(0), count |-> 0])
         IN  Return(IF acc.count > 0
                    THEN MathSqrt(Div(acc.sumSquaredErrors, N(acc.count)))
                    ELSE Surd(0, 1, 1))

---------------------------------------------------------------------------
(* forecast-accuracy-chart.tsx: prepareChartData *)

Point(label, historical, forecast) ==
    [date |-> label, historical |-> historical, forecast |-> forecast]

\* lines 120-128
RECURSIVE HistoricalPoints(_)
HistoricalPoints(hist) ==
    IF hist = <<>> THEN <<>>
    ELSE <<Point(ToLocaleDateString(Head(hist).created_at), JNum(Head(hist).cost), Null)>>
         \o HistoricalPoints(Tail(hist))

\* lines 135-145: the loop from index i on, lastDate being the cursor
RECURSIVE ForecastPoints(_, _, _)
ForecastPoints(forecast, i, lastDate) ==
    IF i >= Len(forecast) THEN <<>>
    ELSE LET next == SetMonth(lastDate, lastDate.month + 1)
         IN  <<Point(ToLocaleDateString(next), Null, JNum(At(forecast, i)))>>
             \o ForecastPoints(forecast, i + 1, next)

\* the mutation of prepareChartData that always starts the cursor at new Date()
prepareChartDataFromToday(hist, fdata, today) ==
    HistoricalPoints(hist)
    \o (IF fdata.t # "null" /\ ~IsFalsy(fdata.forecast)
        THEN ForecastPoints(fdata.forecast.v, 0, today)
        ELSE <<>>)

\* the mutation of prepareChartData that starts the forecast loop at index 1
prepareChartDataSkipFirst(hist, fdata, today) ==
    HistoricalPoints(hist)
    \o (IF fdata.t # "null" /\ ~IsFalsy(fdata.forecast)
        THEN ForecastPoints(fdata.forecast.v, 1,
                            IF Len(hist) > 0 THEN hist[Len(hist)].created_at ELSE today)
        ELSE <<>>)

\* today is what new Date() reads off the system clock
prepareChartData(hist, fdata, today) ==
    LET lastDate == IF Len(hist) > 0 THEN hist[Len(hist)].created_at ELSE today
    IN  HistoricalPoints(hist)
        \o (IF fdata.t # "null" /\ ~IsFalsy(fdata.forecast)
            THEN ForecastPoints(fdata.forecast.v, 0, lastDate)
            ELSE <<>>)

---------------------------------------------------------------------------
(* The inputs the helpers of the chart component are applied to. *)

Dates ==
    {MkDate(y, m, d) : <<y, m, d>> \in
        {t \in Years \X (0..11) \X Days : t[3] <= DaysInMonth(t[1], t[2])}}

\* what new Date() may read: a day in the middle or at the end of a month
Clock == {dt \in Dates : dt.year = 2024 /\ dt.date \in {15, 31}}

\* the first day of the month k months before dt's month (dt itself for k = 0)
MonthsBefore(dt, k) ==
    IF k = 0 THEN dt
    ELSE LET months == dt.year * 12 + dt.month - k
         IN  MkDate(months \div 12, months % 12, 1)

\* the rows of a history table in ascending created_at order (line 39): one
\* row a month, the last one dated last
Histories(costs, lastDates) ==
    UNION {{[i \in 1..n |-> [created_at |-> MonthsBefore(last, n - i), cost |-> cs[i]]]
               : <<cs, last>> \in [1..n -> costs] \X lastDates}
           : n \in 0..MaxHist}

\* the bodies response.json() resolves to: JSON null, an object without a
\* forecast, with forecast null, or with a forecast array of numbers
ForecastBodies(preds) ==
    {Null, JObject(Undefined), JObject(Null)}
    \cup UNION {{JObject(JArray(s)) : s \in [1..n -> preds]} : n \in 0..MaxForecast}

DefaultDate == MkDate(2024, 0, 15)
MetricHistories == Histories(Costs, {DefaultDate})
MetricBodies == ForecastBodies(Preds)
ChartHistories == Histories(ChartCosts, Dates)
ChartBodies == ForecastBodies(ChartPreds)

---------------------------------------------------------------------------
(* forecast-accuracy-chart.tsx: state after construction (lines 20-22) *)

InitialState ==
    /\ isLoading = TRUE
    /\ metrics = [mape |-> N(0), rmse |-> Surd(0, 1, 1)]
    /\ chartData = <<>>
    /\ runs = <<>>

ComponentIdle ==
    /\ rendered = FALSE
    /\ selection = [resourceType |-> "", resource |-> ""]
    /\ InitialState

---------------------------------------------------------------------------
(* report-dialog.tsx: state after construction (lines 33-35) *)

ReportIdle ==
    /\ mounted = FALSE
    /\ props = [open |-> FALSE, resource |-> "", resourceType |-> "",
                historicalData |-> <<>>, forecastData |-> <<>>]
    /\ forecastedCost = Null
    /\ forecastSeries = JArray(<<>>)
    /\ inflight = [fetch |-> 0, json |-> 0]
    /\ settled = "none"

---------------------------------------------------------------------------
(* The chart component's helpers, each applied to every input. *)

ChartIdle ==
    /\ called = "none"
    /\ historyData = <<>>
    /\ forecastData = Null
    /\ ret = Return(N(0))

CallCalculateMAPE ==
    /\ called = "none"
    /\ \E hist \in MetricHistories, fdata \in MetricBodies :
          /\ called' = "calculateMAPE"
          /\ historyData' = hist
          /\ forecastData' = fdata
          /\ ret' = calculateMAPE(hist, fdata)
    /\ UNCHANGED <<reportVars, compVars>>

CallCalculateRMSE ==
    /\ called = "none"
    /\ \E hist \in MetricHistories, fdata \in MetricBodies :
          /\ called' = "calculateRMSE"
          /\ historyData' = hist
          /\ forecastData' = fdata
          /\ ret' = calculateRMSE(hist, fdata)
    /\ UNCHANGED <<reportVars, compVars>>

\* new Date() (line 131) is evaluated, and the clock read, only when there is
\* no history row
CallPrepareChartData ==
    /\ called = "none"
    /\ \E hist \in ChartHistories, fdata \in ChartBodies :
       \E today \in (IF Len(hist) > 0 THEN {DefaultDate} ELSE Clock) :
          /\ called' = "prepareChartData"
          /\ historyData' = hist
          /\ forecastData' = fdata
          /\ ret' = Return(prepareChartData(hist, fdata, today))
    /\ UNCHANGED <<reportVars, compVars>>

Init == ChartIdle /\ ReportIdle /\ ComponentIdle

Next ==
    \/ CallCalculateMAPE
    \/ CallCalculateRMSE
    \/ CallPrepareChartData

Spec == Init /\ [][Next]_vars

---------------------------------------------------------------------------
(* report-dialog.tsx: the fetchForecast effect (lines 39-71).              *)
(*                                                                         *)
(* The state updates a continuation makes are applied together, in the     *)
(* order they were made, when the continuation ends (React's batching);    *)
(* the rows of historicalData and forecastData stay the same while the     *)
(* dialog is mounted.                                                      *)

MaxPropLen == 2
MaxInFlight == 2
targetDateInMonths == 6

HistoricalPrices == {0, 100}
ForecastPrices == {120, 130}
ApiPreds == {100, 110}
ApiSteps == {0, 5}
Resources == {"", "cement"}
ResourceTypes == {"", "material"}

PriceRows(prices) ==
    UNION {{[i \in 1..n |-> [price |-> ps[i]]] : ps \in [1..n -> prices]} : n \in 0..MaxPropLen}

\* forecasts of up to `steps` values (line 48), each a step above the last
ApiForecasts ==
    {[i \in 1..n |-> first + (i - 1) * step] :
        <<n, first, step>> \in (0..targetDateInMonths) \X ApiPreds \X ApiSteps}

\* the bodies the report's endpoint answers with: JSON null, an object without
\* a forecast, with forecast null, or with a forecast array
ApiBodies ==
    {Null, JObject(Undefined), JObject(Null)} \cup {JObject(JArray(f)) : f \in ApiForecasts}

\* arr[index]: undefined past the end
Index(arr, index) == IF index < Len(arr) THEN JNum(At(arr, index)) ELSE Undefined

RECURSIVE MapPrice(_)
MapPrice(rows) ==
    IF rows = <<>> THEN <<>> ELSE <<Head(rows).price>> \o MapPrice(Tail(rows))

Write(name, value) == [state |-> name, value |-> value]

\* lines 52-54, data being what response.json() resolved to: the updates made
\* and whether the block threw
TryWrites(data) ==
    IF data.t = "null" THEN [threw |-> TRUE, writes |-> <<>>]
    ELSE IF IsFalsy(data.forecast)
    THEN [threw |-> TRUE, writes |-> <<Write("forecastSeries", data.forecast)>>]
    ELSE [threw |-> FALSE,
          writes |-> <<Write("forecastSeries", data.forecast),
                       Write("forecastedCost", Index(data.forecast.v, 5))>>]

\* the mutation of CatchWrites that leaves forecastSeries alone when there is
\* nothing to fall back on
CatchWritesCostOnly(p) ==
    IF Len(p.forecastData) > 0
    THEN <<Write("forecastSeries", JArray(MapPrice(p.forecastData))),
           Write("forecastedCost", JNum(p.forecastData[Len(p.forecastData)].price))>>
    ELSE IF Len(p.historicalData) > 0
    THEN <<Write("forecastSeries", JArray(<<p.historicalData[Len(p.historicalData)].price>>)),
           Write("forecastedCost", JNum(p.historicalData[Len(p.historicalData)].price))>>
    ELSE <<Write("forecastedCost", Null)>>

\* lines 55-67: the catch block
CatchWrites(p) ==
    IF Len(p.forecastData) > 0
    THEN <<Write("forecastSeries", JArray(MapPrice(p.forecastData))),
           Write("forecastedCost", JNum(p.forecastData[Len(p.forecastData)].price))>>
    ELSE IF Len(p.historicalData) > 0
    THEN <<Write("forecastSeries", JArray(<<p.historicalData[Len(p.historicalData)].price>>)),
           Write("forecastedCost", JNum(p.historicalData[Len(p.historicalData)].price))>>
    ELSE <<Write("forecastSeries", JArray(<<>>)),
           Write("forecastedCost", Null)>>

\* the value of a state after the updates of one continuation
RECURSIVE Applied(_, _, _)
Applied(name, value, writes) ==
    IF writes = <<>> THEN value
    ELSE Applied(name,
                 IF Head(writes).state = name THEN Head(writes).value ELSE value,
                 Tail(writes))

Commit(writes) ==
    /\ forecastSeries' = Applied("forecastSeries", forecastSeries, writes)
    /\ forecastedCost' = Applied("forecastedCost", forecastedCost, writes)

\* line 40 and line 70: the effect starts a fetchForecast call, which runs up
\* to its first await, unless the guard returns
RunEffect(p) ==
    IF ~p.open \/ p.resource = "" \/ p.resourceType = ""
    THEN UNCHANGED inflight
    ELSE inflight' = [inflight EXCEPT !.fetch = @ + 1]

CanStart(p) ==
    (~p.open \/ p.resource = "" \/ p.resourceType = "")
        \/ inflight.fetch + inflight.json < MaxInFlight

\* the first render and its effect
Mount ==
    /\ ~mounted
    /\ CanStart(props)
    /\ mounted' = TRUE
    /\ RunEffect(props)
    /\ UNCHANGED <<props, forecastedCost, forecastSeries, settled>>
    /\ UNCHANGED <<chartVars, compVars>>

\* a render with another open, resource or resourceType: the dependencies of
\* line 71 differ, so the effect runs again
Rerender ==
    /\ mounted
    /\ \E o \in BOOLEAN, r \in Resources, ty \in ResourceTypes :
          LET p == [props EXCEPT !.open = o, !.resource = r, !.resourceType = ty]
          IN  /\ p # props
              /\ CanStart(p)
              /\ props' = p
              /\ RunEffect(p)
    /\ UNCHANGED <<mounted, forecastedCost, forecastSeries, settled>>
    /\ UNCHANGED <<chartVars, compVars>>

\* line 51: fetch() resolves with a response
FetchResolves ==
    /\ inflight.fetch > 0
    /\ inflight' = [fetch |-> inflight.fetch - 1, json |-> inflight.json + 1]
    /\ UNCHANGED <<mounted, props, forecastedCost, forecastSeries, settled>>
    /\ UNCHANGED <<chartVars, compVars>>

\* line 51: fetch() rejects (a network error)
FetchRejects ==
    /\ inflight.fetch > 0
    /\ inflight' = [inflight EXCEPT !.fetch = @ - 1]
    /\ Commit(CatchWrites(props))
    /\ settled' = "caught"
    /\ UNCHANGED <<mounted, props>>
    /\ UNCHANGED <<chartVars, compVars>>

\* line 52: response.json() rejects (the body does not parse)
JsonRejects ==
    /\ inflight.json > 0
    /\ inflight' = [inflight EXCEPT !.json = @ - 1]
    /\ Commit(CatchWrites(props))
    /\ settled' = "caught"
    /\ UNCHANGED <<mounted, props>>
    /\ UNCHANGED <<chartVars, compVars>>

\* lines 52-67: response.json() resolves with a body
JsonResolves ==
    /\ inflight.json > 0
    /\ inflight' = [inflight EXCEPT !.json = @ - 1]
    /\ \E data \in ApiBodies :
          LET try == TryWrites(data)
          IN  IF try.threw
              THEN /\ Commit(try.writes \o CatchWrites(props))
                   /\ settled' = "caught"
              ELSE /\ Commit(try.writes)
                   /\ settled' = "ok"
    /\ UNCHANGED <<mounted, props>>
    /\ UNCHANGED <<chartVars, compVars>>

RECURSIVE SumPrices(_)
SumPrices(rows) == IF rows = <<>> THEN N(0) ELSE Add(N(Head(rows).price), SumPrices(Tail(rows)))

RECURSIVE SumSeries(_)
SumSeries(series) == IF series = <<>> THEN N(0) ELSE Add(N(Head(series)), SumSeries(Tail(series)))

\* lines 126-140, evaluated at every render
calculateStats ==
    IF Len(props.historicalData) = 0 \/ Len(forecastSeries.v) = 0 \/ forecastedCost = Null
    THEN Null
    ELSE LET historicalAvg == Div(SumPrices(props.historicalData), N(Len(props.historicalData)))
             forecastAvg == Div(SumSeries(forecastSeries.v), N(Len(forecastSeries.v)))
             percentChange == Mul(Div(Sub(forecastAvg, historicalAvg), historicalAvg), N(100))
             lastPrice == props.historicalData[Len(props.historicalData)].price
         IN  [t |-> "object",
              lastHistorical |-> IF lastPrice # 0 THEN lastPrice ELSE 0,
              lastForecast |-> forecastedCost,
              percentChange |-> percentChange,
              historicalAvg |-> historicalAvg,
              forecastAvg |-> forecastAvg]

InitReport ==
    /\ ChartIdle
    /\ ComponentIdle
    /\ mounted = FALSE
    /\ props \in [open : BOOLEAN, resource : Resources, resourceType : ResourceTypes,
                  historicalData : PriceRows(HistoricalPrices),
                  forecastData : PriceRows(ForecastPrices)]
    /\ forecastedCost = Null
    /\ forecastSeries = JArray(<<>>)
    /\ inflight = [fetch |-> 0, json |-> 0]
    /\ settled = "none"

NextReport ==
    \/ Mount
    \/ Rerender
    \/ FetchResolves
    \/ FetchRejects
    \/ JsonResolves
    \/ JsonRejects

SpecReport == InitReport /\ [][NextReport]_vars

---------------------------------------------------------------------------
(* What the claims speak of, stated without the code's loops. *)

HasForecastArray(fdata) == fdata.t = "object" /\ fdata.forecast.t = "array"
ForecastOf(fdata) == IF HasForecastArray(fdata) THEN fdata.forecast.v ELSE <<>>

\* the overlap: <<actual, predicted>> for point i of the last K history rows
\* and forecast[i], K the shorter of the two lengths
Overlap(hist, forecast) ==
    LET K == Min(Len(hist), Len(forecast))
    IN  [i \in 1..K |-> <<hist[Len(hist) - K + i].cost, forecast[i]>>]

NonNegative(x) == x.d > 0 /\ x.n >= 0

\* |actual - predicted| / actual * 100
APE(pair) == Mul(Div(MathAbs(Sub(N(pair[1]), N(pair[2]))), N(pair[1])), N(100))

RECURSIVE SumAPE(_)
SumAPE(pairs) == IF pairs = <<>> THEN N(0) ELSE Add(APE(Head(pairs)), SumAPE(Tail(pairs)))

RECURSIVE SumSquares(_)
SumSquares(pairs) ==
    IF pairs = <<>> THEN 0
    ELSE (Head(pairs)[1] - Head(pairs)[2]) * (Head(pairs)[1] - Head(pairs)[2])
         + SumSquares(Tail(pairs))

Mean(total, count) == IF count = 0 THEN N(0) ELSE Div(total, N(count))
NonZeroActual(pair) == pair[1] # 0
MeanAPE(pairs) ==
    LET valid == SelectSeq(pairs, NonZeroActual)
    IN  Mean(SumAPE(valid), Len(valid))

\* the square of a result of Math.sqrt
Squared(x) == IF x.r = 1 THEN Rat(x.n * x.n, x.d * x.d) ELSE Rat(x.n, x.d)

MetricCall == called \in {"calculateMAPE", "calculateRMSE"}

---------------------------------------------------------------------------
\* C1: calculateMAPE and calculateRMSE compare only the overlap: the last
\* K = min(len(historical), len(forecast)) history rows in their order, row i
\* of that tail against forecast[i]. The result is the metric of exactly these
\* pairs (for a history shorter than the forecast: every row, against the first
\* len(historical) forecast values).
C1_TailAlignment ==
    (MetricCall /\ HasForecastArray(forecastData)) =>
        LET pairs == Overlap(historyData, ForecastOf(forecastData))
        IN  /\ ~ret.threw
            /\ called = "calculateMAPE" => ret.value = MeanAPE(pairs)
            /\ called = "calculateRMSE" =>
                  /\ ret.value.d > 0
                  /\ Squared(ret.value) = Mean(N(SumSquares(pairs)), Len(pairs))

\* a history longer than the forecast whose first and last rows differ, so
\* that head and tail of the history give different pairs
C1_Witness ==
    /\ MetricCall
    /\ HasForecastArray(forecastData)
    /\ Len(ForecastOf(forecastData)) = 1
    /\ Len(historyData) = 3
    /\ historyData[1].cost = 100
    /\ historyData[3].cost = 110
    /\ ForecastOf(forecastData)[1] = 105

\* C2: calculateMAPE leaves every pair whose actual cost is 0 out of the error
\* sum and out of the count, and returns the mean of |actual - predicted| /
\* actual * 100 over the other pairs, 0 when none is left; with every actual
\* non-zero the result is >= 0 and is the mean over all the pairs.
C2_MAPE ==
    (called = "calculateMAPE" /\ HasForecastArray(forecastData)) =>
        LET forecast == ForecastOf(forecastData)
            K == Min(Len(historyData), Len(forecast))
            actual(i) == historyData[Len(historyData) - K + i].cost
            valid == {i \in 1..K : actual(i) # 0}
            kept == SelectSeq(Overlap(historyData, forecast), NonZeroActual)
        IN  /\ ~ret.threw
            /\ Len(kept) = Cardinality(valid)
            /\ valid = {} => ret.value = N(0)
            /\ valid # {} => ret.value = Div(SumAPE(kept), N(Cardinality(valid)))
            /\ valid = 1..K =>
                  /\ NonNegative(ret.value)
                  /\ ret.value = Mean(SumAPE(Overlap(historyData, forecast)), K)

\* a zero actual among non-zero ones, with a forecast that misses both
C2_Witness ==
    /\ called = "calculateMAPE"
    /\ HasForecastArray(forecastData)
    /\ Len(historyData) = 2
    /\ Len(ForecastOf(forecastData)) = 2
    /\ historyData[1].cost = 0
    /\ historyData[2].cost = 110
    /\ ForecastOf(forecastData) = <<105, 115>>
    /\ ret.value = Rat(50, 11)

\* C3: calculateRMSE counts every pair of the overlap, those with an actual of
\* 0 too; its result is >= 0, and is 0 exactly when every pair is identical.
C3_RMSE ==
    /\ (called = "calculateRMSE" /\ ~ret.threw) => (ret.value.d > 0 /\ ret.value.n >= 0)
    /\ (called = "calculateRMSE" /\ HasForecastArray(forecastData)) =>
        LET pairs == Overlap(historyData, ForecastOf(forecastData))
        IN  /\ ~ret.threw
            /\ Squared(ret.value) = Mean(N(SumSquares(pairs)), Len(pairs))
            /\ (ret.value.n = 0) <=> (\A i \in 1..Len(pairs) : pairs[i][1] = pairs[i][2])

\* the spec's example: historical [0], forecast [100]: RMSE is 100
C3_Witness ==
    /\ called = "calculateRMSE"
    /\ HasForecastArray(forecastData)
    /\ Len(historyData) = 1
    /\ historyData[1].cost = 0
    /\ ForecastOf(forecastData) = <<100>>
    /\ ret.value = Surd(100, 1, 1)

\* C4: calculateMAPE and calculateRMSE return 0 and do not throw when the
\* history is empty or the forecast array is empty, whatever the other
\* argument is.
C4_EmptyInputs ==
    (/\ MetricCall
     /\ \/ Len(historyData) = 0
        \/ HasForecastArray(forecastData) /\ Len(ForecastOf(forecastData)) = 0) =>
        /\ ~ret.threw
        /\ ret.value.n = 0 /\ ret.value.d = 1

\* no history and a body of JSON null, which has no forecast to read
C4_Witness ==
    /\ called = "calculateRMSE"
    /\ Len(historyData) = 0
    /\ forecastData = Null
    /\ ~ret.threw

\* C5: prepareChartData emits len(historical) + len(forecast) points, either
\* side empty included: first the history costs in their order with forecast
\* absent, then the forecast values in their order with historical absent, so
\* that every point carries exactly one of the two.
C5_CombinedSeries ==
    called = "prepareChartData" =>
        LET forecast == ForecastOf(forecastData)
            h == Len(historyData)
            combined == ret.value
        IN  /\ Len(combined) = h + Len(forecast)
            /\ \A i \in 1..h :
                  /\ i <= Len(combined)
                  /\ combined[i].historical = JNum(historyData[i].cost)
                  /\ combined[i].forecast = Null
            /\ \A j \in 1..Len(forecast) :
                  /\ h + j <= Len(combined)
                  /\ combined[h + j].forecast = JNum(forecast[j])
                  /\ combined[h + j].historical = Null
            /\ \A k \in 1..Len(combined) :
                  (combined[k].historical = Null) # (combined[k].forecast = Null)

C5_Witness ==
    /\ called = "prepareChartData"
    /\ Len(historyData) = 2
    /\ ForecastOf(forecastData) = <<100, 105>>
    /\ Len(ret.value) = 4

\* the label of the calendar month k months after dt's month
MonthLabel(dt, k) ==
    LET months == dt.year * 12 + dt.month + k
    IN  [month |-> MonthShort[(months % 12) + 1], year |-> (months \div 12) % 100]

\* C6: in prepareChartData, whatever the day of the month of the last history
\* row and whatever the forecast length, forecast point j (1, 2, ...) is
\* labelled with the calendar month j months after the last history row's
\* month: the first with the month right after it, each next one with the
\* month right after the one before.
C6_MonthlyLabels ==
    (called = "prepareChartData" /\ Len(historyData) > 0) =>
        LET h == Len(historyData)
            last == historyData[h].created_at
        IN  \A j \in 1..Len(ForecastOf(forecastData)) :
               ret.value[h + j].date = MonthLabel(last, j)

\* C9 as claimed: prepareChartData gives the same output for the same
\* historical and forecast inputs whatever the system clock reads, an empty
\* history included.
C9_ClockIndependent ==
    called = "prepareChartData" =>
        \A today \in Clock : prepareChartData(historyData, forecastData, today) = ret.value

\* C9: prepareChartData gives the same output for the same historical and
\* forecast inputs whatever the system clock reads, provided the history is not
\* empty or there is no forecast value to label.
C9_ClockIndependentWithHistory ==
    (/\ called = "prepareChartData"
     /\ Len(historyData) > 0 \/ Len(ForecastOf(forecastData)) = 0) =>
        \A today \in Clock : prepareChartData(historyData, forecastData, today) = ret.value

C9_Witness ==
    /\ called = "prepareChartData"
    /\ Len(historyData) > 0
    /\ Len(ForecastOf(forecastData)) = MaxForecast
    /\ historyData[Len(historyData)].created_at # DefaultDate

---------------------------------------------------------------------------
(* The report dialog. *)

IsNumber(value) == value.t = "number"

\* C7: calculateStats returns absent when historicalData is empty, when
\* forecastSeries is empty, or when forecastedCost is not a defined number; in
\* every state the forecast fetch leads to, a response with fewer than 6
\* forecast values included, a result that is not absent has a lastForecast
\* that is a number.
C7_StatsNeedDefinedCost ==
    /\ (\/ Len(props.historicalData) = 0
        \/ Len(forecastSeries.v) = 0
        \/ ~IsNumber(forecastedCost)) => calculateStats = Null
    /\ calculateStats # Null => IsNumber(calculateStats.lastForecast)

\* C8: with historical prices whose mean is 0 (historicalData and
\* forecastSeries not empty, forecastedCost a number), calculateStats reports a
\* sentinel for percentChange, absent or not-a-number, and not the quotient of
\* a division by zero.
C8_ZeroMeanSentinel ==
    (/\ Len(props.historicalData) > 0
     /\ SumPrices(props.historicalData) = N(0)
     /\ Len(forecastSeries.v) > 0
     /\ IsNumber(forecastedCost)) =>
        \/ calculateStats = Null
        \/ IsNaN(calculateStats.percentChange)

\* C10: when a forecast fetch has failed (fetch rejected, the body did not
\* parse, or the body held no forecast array), forecastSeries and
\* forecastedCost hold the fallback: the prices of forecastData and the last of
\* them if forecastData is not empty; else the last historical price, alone in
\* the series and as the cost, if historicalData is not empty; else the empty
\* series and null. Nothing written before the failure is left in
\* forecastSeries.
C10_FallbackOnFailure ==
    settled = "caught" =>
        LET fd == props.forecastData
            hd == props.historicalData
        IN  IF Len(fd) > 0
            THEN /\ forecastSeries = JArray([i \in 1..Len(fd) |-> fd[i].price])
                 /\ forecastedCost = JNum(fd[Len(fd)].price)
            ELSE IF Len(hd) > 0
            THEN /\ forecastSeries = JArray(<<hd[Len(hd)].price>>)
                 /\ forecastedCost = JNum(hd[Len(hd)].price)
            ELSE /\ forecastSeries = JArray(<<>>)
                 /\ forecastedCost = Null

\* a failure with nothing to fall back on, while another call is in flight
C10_Witness ==
    /\ settled = "caught"
    /\ Len(props.forecastData) = 0
    /\ Len(props.historicalData) = 0
    /\ forecastSeries = JArray(<<>>)
    /\ inflight.json > 0

---------------------------------------------------------------------------
(* forecast-accuracy-chart.tsx: the component and its data-loading effect   *)
(* (lines 24-74). A run of the effect either returns at the guard or calls  *)
(* fetchData, which runs to its first await and is resumed at each await    *)
(* when the promise settles; the state updates of one continuation are      *)
(* applied together.                                                        *)

MaxRuns == 2

RunIds == 1..MaxRuns

ChartResourceTypes == {"", "material", "labor"}
ChartResources == {"", "cement", "mason"}
Selections == [resourceType : ChartResourceTypes, resource : ChartResources]

\* the rows the tables hold, by the name in the material or labor column
material_history ==
    [name \in ChartResources |->
        IF name = "cement"
        THEN <<[created_at |-> MkDate(2023, 11, 1), cost |-> 100],
               [created_at |-> MkDate(2024, 0, 1), cost |-> 110]>>
        ELSE <<>>]

labor_history ==
    [name \in ChartResources |->
        IF name = "mason"
        THEN <<[created_at |-> MkDate(2024, 0, 31), cost |-> 0]>>
        ELSE <<>>]

\* lines 33-39: the rows the query selects
HistoryRows(sel) ==
    LET tableName == IF sel.resourceType = "material" THEN material_history
                                                        ELSE labor_history
    IN  tableName[sel.resource]

\* lines 47-56: the forecast the service computes for type, name and steps
Predict(sel) ==
    LET first == IF sel.resourceType = "material" THEN 105 ELSE 5
        step == IF sel.resource = "cement" THEN 10 ELSE 0
    IN  [i \in 1..targetDateInMonths |-> first + step * (i - 1)]

\* line 56: what response.json() may resolve to: JSON null, an error object
\* without a forecast, or the forecast of the service
PredictBodies(sel) == {Null, JObject(Undefined), JObject(JArray(Predict(sel)))}

\* what new Date() reads while the component is on screen
Today == {MkDate(2024, 0, 15), MkDate(2024, 0, 31)}

Pending == {"history", "fetch", "json"}
Failed == {"missing", "historyError", "fetchFailed", "jsonFailed", "exception"}

Run(sel, at) ==
    [resourceType |-> sel.resourceType, resource |-> sel.resource, at |-> at,
     historyData |-> <<>>, forecastData |-> Undefined]

SelectionOf(run) == [resourceType |-> run.resourceType, resource |-> run.resource]

\* the state after the updates of one continuation
CommitComponent(writes) ==
    /\ isLoading' = Applied("isLoading", isLoading, writes)
    /\ metrics' = Applied("metrics", metrics, writes)
    /\ chartData' = Applied("chartData", chartData, writes)

\* lines 25-28: the guard
GuardWrites == <<Write("isLoading", FALSE)>>

\* line 31
StartWrites == <<Write("isLoading", TRUE)>>

\* lines 41-45
HistoryErrorWrites == <<Write("isLoading", FALSE)>>

\* lines 59-65: the updates made and whether the block threw
MetricWrites(hist, fdata, today) ==
    LET mape == calculateMAPE(hist, fdata)
        rmse == calculateRMSE(hist, fdata)
    IN  IF mape.threw \/ rmse.threw THEN [threw |-> TRUE, writes |-> <<>>]
        ELSE [threw |-> FALSE,
              writes |-> <<Write("metrics", [mape |-> mape.value, rmse |-> rmse.value]),
                           Write("chartData", prepareChartData(hist, fdata, today))>>]

\* the mutation of FinallyWrites that has no finally block
FinallyWritesNone == <<>>

\* lines 68-70
FinallyWrites == <<Write("isLoading", FALSE)>>

\* lines 24-74: the effect runs for the props sel
Effect(sel) ==
    IF sel.resource = "" \/ sel.resourceType = ""
    THEN /\ CommitComponent(GuardWrites)
         /\ runs' = Append(runs, Run(sel, "missing"))
    ELSE /\ CommitComponent(StartWrites)
         /\ runs' = Append(runs, Run(sel, "history"))

\* the first render and its effect
ChartMount ==
    /\ ~rendered
    /\ \E sel \in Selections :
          /\ selection' = sel
          /\ Effect(sel)
    /\ rendered' = TRUE
    /\ UNCHANGED <<chartVars, reportVars>>

\* line 74: a render with another resource or resourceType runs the effect again
ChartRerender ==
    /\ rendered
    /\ Len(runs) < MaxRuns
    /\ \E sel \in Selections :
          /\ sel # selection
          /\ selection' = sel
          /\ Effect(sel)
    /\ UNCHANGED rendered
    /\ UNCHANGED <<chartVars, reportVars>>

\* lines 35-45: the history query comes back with an error
QueryReturnsError(i) ==
    /\ i <= Len(runs)
    /\ runs[i].at = "history"
    /\ runs' = [runs EXCEPT ![i].at = "historyError"]
    /\ CommitComponent(HistoryErrorWrites)
    /\ UNCHANGED <<rendered, selection>>
    /\ UNCHANGED <<chartVars, reportVars>>

\* lines 35-55: the history query comes back with rows and the forecast is
\* requested
QueryReturnsRows(i) ==
    /\ i <= Len(runs)
    /\ runs[i].at = "history"
    /\ runs' = [runs EXCEPT ![i].at = "fetch",
                            ![i].historyData = HistoryRows(SelectionOf(runs[i]))]
    /\ UNCHANGED <<rendered, selection, isLoading, metrics, chartData>>
    /\ UNCHANGED <<chartVars, reportVars>>

\* line 55: fetch() resolves with a response
PredictResolves(i) ==
    /\ i <= Len(runs)
    /\ runs[i].at = "fetch"
    /\ runs' = [runs EXCEPT ![i].at = "json"]
    /\ UNCHANGED <<rendered, selection, isLoading, metrics, chartData>>
    /\ UNCHANGED <<chartVars, reportVars>>

\* lines 55, 66-70: fetch() rejects (a network error)
PredictRejects(i) ==
    /\ i <= Len(runs)
    /\ runs[i].at = "fetch"
    /\ runs' = [runs EXCEPT ![i].at = "fetchFailed"]
    /\ CommitComponent(FinallyWrites)
    /\ UNCHANGED <<rendered, selection>>
    /\ UNCHANGED <<chartVars, reportVars>>

\* lines 56, 66-70: response.json() rejects (the body does not parse)
BodyRejects(i) ==
    /\ i <= Len(runs)
    /\ runs[i].at = "json"
    /\ runs' = [runs EXCEPT ![i].at = "jsonFailed"]
    /\ CommitComponent(FinallyWrites)
    /\ UNCHANGED <<rendered, selection>>
    /\ UNCHANGED <<chartVars, reportVars>>

\* lines 56-70: response.json() resolves with a body
BodyResolves(i) ==
    /\ i <= Len(runs)
    /\ runs[i].at = "json"
    /\ \E data \in PredictBodies(SelectionOf(runs[i])),
          today \in (IF Len(runs[i].historyData) > 0 THEN {DefaultDate} ELSE Today) :
          LET try == MetricWrites(runs[i].historyData, data, today)
          IN  /\ runs' = [runs EXCEPT ![i].at = IF try.threw THEN "exception" ELSE "success",
                                      ![i].forecastData = data]
              /\ CommitComponent(try.writes \o FinallyWrites)
    /\ UNCHANGED <<rendered, selection>>
    /\ UNCHANGED <<chartVars, reportVars>>

\* a promise run i awaits settles
Settles(i) ==
    \/ QueryReturnsError(i)
    \/ QueryReturnsRows(i)
    \/ PredictResolves(i)
    \/ PredictRejects(i)
    \/ BodyRejects(i)
    \/ BodyResolves(i)

InitChart ==
    /\ ChartIdle
    /\ ReportIdle
    /\ ComponentIdle

NextChart ==
    \/ ChartMount
    \/ ChartRerender
    \/ \E i \in RunIds : QueryReturnsError(i)
    \/ \E i \in RunIds : QueryReturnsRows(i)
    \/ \E i \in RunIds : PredictResolves(i)
    \/ \E i \in RunIds : PredictRejects(i)
    \/ \E i \in RunIds : BodyRejects(i)
    \/ \E i \in RunIds : BodyResolves(i)

\* every promise a run awaits settles in the end
SpecChart ==
    InitChart /\ [][NextChart]_vars /\ \A i \in RunIds : WF_vars(Settles(i))

---------------------------------------------------------------------------
(* ForecastAccuracyChart: the data-loading effect *)

\* run i of the effect has come to its end
Finished(i) == i <= Len(runs) /\ runs[i].at \notin Pending

\* run i of the effect comes to its end in this step
Finishes(i) ==
    /\ i <= Len(runs')
    /\ runs'[i].at \notin Pending
    /\ (i > Len(runs) \/ runs[i].at \in Pending)

\* a run that ends leaves isLoading false, and one that ends in a failure
\* leaves metrics and chartData as they were
C11_EndsNotLoading ==
    [][\A i \in RunIds :
          Finishes(i) =>
              /\ isLoading' = FALSE
              /\ (runs'[i].at \in Failed =>
                      metrics' = metrics /\ chartData' = chartData)]_vars

\* every run that has started comes to its end
C11_EveryRunEnds ==
    \A i \in RunIds : [](i <= Len(runs) => <>Finished(i))

\* C11: every run of the data-loading effect of ForecastAccuracyChart comes to
\* an end, whatever the outcome (missing resource or resourceType, history
\* query error, forecast fetch or JSON failure, exception in the metric or
\* chart preparation, success), the step that ends it leaves isLoading false,
\* and when the outcome is a failure that step leaves metrics and chartData
\* unchanged.
C11_LoadingEnds == C11_EndsNotLoading /\ C11_EveryRunEnds

\* a run ended in an exception of the metric preparation after another run
\* had filled the chart: the chart is still filled and nothing is loading
C11_Witness ==
    /\ ~isLoading
    /\ chartData # <<>>
    /\ \E i, j \in RunIds :
          /\ i # j
          /\ Finished(i) /\ runs[i].at = "exception"
          /\ Finished(j) /\ runs[j].at = "success"

---------------------------------------------------------------------------
(* ForecastAccuracyChart: a change of resource while a fetch is in flight *)

\* the run of the effect for the props now selected
Newest == runs[Len(runs)]

\* what a run that succeeded computed from its rows and its forecast
ComputedMetrics(run) ==
    [mape |-> calculateMAPE(run.historyData, run.forecastData).value,
     rmse |-> calculateRMSE(run.historyData, run.forecastData).value]

ComputedCharts(run) ==
    {prepareChartData(run.historyData, run.forecastData, today) : today \in Today}

\* isLoading stays true while the fetch for the props now selected is
\* outstanding
C12_NewestStaysLoading ==
    (Len(runs) > 0 /\ Newest.at \in Pending) => isLoading

\* once every fetch has completed, the newest having succeeded, metrics and
\* chartData are those computed for the props now selected
C12_NewestDataStored ==
    (Len(runs) > 0 /\ Newest.at = "success" /\ \A i \in 1..Len(runs) : Finished(i))
        => /\ metrics = ComputedMetrics(Newest)
           /\ chartData \in ComputedCharts(Newest)

\* C12: when resource or resourceType changes while an earlier fetchData call
\* is in flight, a stale response neither unblocks nor overwrites the newer
\* one: isLoading is not false while the fetch for the most recent selection
\* is outstanding, and once all fetches have completed chartData and metrics
\* are those computed for the most recent selection.
C12_NoStaleResponse == C12_NewestStaysLoading /\ C12_NewestDataStored

=============================================================================
